---- MODULE Spec2Model ----
(***************************************************************************)
(* A model of package flat (rvflash/flat): a nested, dynamically typed     *)
(* document held in D.D, its flattening to a one-level map (Flatten,       *)
(* flatten, simplify, commonPrefix), its path lookup (Lookup) and the      *)
(* typed getters built on Lookup and the coercions of format.go, and its    *)
(* encoding to XML and decoding from XML and JSON (MarshalXML,             *)
(* UnmarshalXML, expanded, UnmarshalJSON).                                 *)
(*                                                                         *)
(* A Go string is a sequence of one-character strings, so that prefixes,   *)
(* sorting and splitting are computed as the code computes them.  Only     *)
(* ASCII text is modelled: a rune and a byte are then the same thing.      *)
(***************************************************************************)
EXTENDS Integers, Sequences, FiniteSets, TLC

VARIABLES D, settings, op, args, flat, ret, run

vars == <<D, settings, op, args, flat, ret, run>>

(***************************************************************************)
(* Strings                                                                 *)
(***************************************************************************)

\* The byte value of each character used (what sort.Strings and < compare).
Code ==
    (" " :> 32) @@ ("-" :> 45) @@ ("." :> 46) @@ ("0" :> 48) @@ ("1" :> 49) @@
    ("2" :> 50) @@ ("5" :> 53) @@ (":" :> 58) @@ ("_" :> 95) @@ ("a" :> 97) @@
    ("b" :> 98) @@ ("d" :> 100) @@ ("l" :> 108) @@ ("m" :> 109) @@ ("n" :> 110) @@
    ("s" :> 115) @@ ("t" :> 116) @@ ("u" :> 117) @@ ("x" :> 120)

keySep == "_"

levelSep == <<" ">>

rootName == <<>>

Digits == {"0", "1", "2", "5"}

Letters == {"a", "b", "d", "l", "m", "n", "s", "t", "u", "x"}

IsDigit(c) == c \in Digits

IsLetter(c) == c \in Letters

Min(a, b) == IF a > b THEN b ELSE a

\* s < t in the byte-wise lexical order of Go strings.
StrLess(s, t) ==
    \E i \in 1..(Min(Len(s), Len(t)) + 1) :
        /\ \A j \in 1..(i - 1) : s[j] = t[j]
        /\ \/ i = Len(s) + 1 /\ i <= Len(t)
           \/ i <= Len(s) /\ i <= Len(t) /\ Code[s[i]] < Code[t[i]]

HasPrefix(s, p) == Len(p) <= Len(s) /\ SubSeq(s, 1, Len(p)) = p

\* strings.TrimPrefix
TrimPrefix(s, p) == IF HasPrefix(s, p) THEN SubSeq(s, Len(p) + 1, Len(s)) ELSE s

\* strings.Join
RECURSIVE Join(_, _)
Join(a, sep) ==
    IF Len(a) = 0 THEN <<>>
    ELSE IF Len(a) = 1 THEN a[1]
    ELSE a[1] \o sep \o Join(Tail(a), sep)

\* The length of the longest run of letters and digits that starts s.
RECURSIVE WordLen(_)
WordLen(s) ==
    IF s = <<>> \/ ~(IsLetter(Head(s)) \/ IsDigit(Head(s))) THEN 0
    ELSE 1 + WordLen(Tail(s))

RECURSIVE SplitWords(_)
SplitWords(s) ==
    IF s = <<>> THEN <<>>
    ELSE LET n == WordLen(s)
         IN  IF n = 0 THEN SplitWords(Tail(s))
             ELSE <<SubSeq(s, 1, n)>> \o SplitWords(SubSeq(s, n + 1, Len(s)))

\* naming.SnakeCase on lower-case ASCII text: the words of s (its runs of
\* letters and digits) joined by "_".
SnakeCase(s) == Join(SplitWords(s), <<keySep>>)

(***************************************************************************)
(* Values: what an interface{} of a document holds                         *)
(***************************************************************************)

EmptyFn == [k \in {} |-> 0]

Null == [t |-> "nil"]

BoolOf(b) == [t |-> "bool", v |-> b]

\* A float64 holding n/10.
FloatOf(n) == [t |-> "float64", v |-> n]

NumberOf(s) == [t |-> "json.Number", v |-> s]

StringOf(s) == [t |-> "string", v |-> s]

ArrayOf(a) == [t |-> "[]interface {}", v |-> a]

\* A map[string]interface{}; isnil tells the nil map from an empty one.
MapOf(m) == [t |-> "map[string]interface {}", v |-> m, isnil |-> FALSE]

NilMap == [t |-> "map[string]interface {}", v |-> EmptyFn, isnil |-> TRUE]

IsMap(x) == x.t = "map[string]interface {}"

\* len(m) of a map value
MapLen(x) == Cardinality(DOMAIN x.v)

KeysOf(m) == DOMAIN m.v

(***************************************************************************)
(* simplify and commonPrefix                                               *)
(***************************************************************************)

\* x[0] and x[n-1] after sort.Strings(x), for a non-empty set of keys.
FirstKey(keys) == CHOOSE k \in keys : \A o \in keys : o = k \/ StrLess(k, o)

LastKey(keys) == CHOOSE k \in keys : \A o \in keys : o = k \/ StrLess(o, k)

\* The index i reached by the loop `for i < c && r1[i] == r2[i]`.
RECURSIVE DivergeAt(_, _, _)
DivergeAt(r1, r2, i) ==
    IF i < Min(Len(r1), Len(r2)) /\ r1[i + 1] = r2[i + 1]
    THEN DivergeAt(r1, r2, i + 1)
    ELSE i

\* commonPrefix with the separator test left out.
commonPrefixAnyCut(in) ==
    IF MapLen(in) <= 1 THEN <<>>
    ELSE LET r1 == FirstKey(DOMAIN in.v)
             r2 == LastKey(DOMAIN in.v)
             i  == DivergeAt(r1, r2, 0)
         IN  IF i = 0 THEN <<>> ELSE SubSeq(r1, 1, i)

\* commonPrefix cut after the first separator of the shared part.
commonPrefixFirstSegment(in) ==
    IF MapLen(in) <= 1 THEN <<>>
    ELSE LET r1 == FirstKey(DOMAIN in.v)
             r2 == LastKey(DOMAIN in.v)
             i  == DivergeAt(r1, r2, 0)
         IN  IF i = 0 \/ r1[i] # keySep THEN <<>>
             ELSE SubSeq(r1, 1, CHOOSE j \in 1..i :
                                    r1[j] = keySep /\ \A h \in 1..(j - 1) : r1[h] # keySep)

commonPrefix(in) ==
    IF MapLen(in) <= 1 THEN <<>>
    ELSE LET r1 == FirstKey(DOMAIN in.v)
             r2 == LastKey(DOMAIN in.v)
             i  == DivergeAt(r1, r2, 0)
         IN  IF i = 0 \/ r1[i] # keySep THEN <<>> ELSE SubSeq(r1, 1, i)

\* The prefix is common to every key, so no two keys of `in` are trimmed to the
\* same key and the CHOOSE below has one candidate.
simplify(in) ==
    LET prefix == commonPrefix(in)
    IN  IF prefix = <<>> THEN in
        ELSE MapOf([k2 \in {TrimPrefix(k, prefix) : k \in DOMAIN in.v} |->
                    in.v[CHOOSE k \in DOMAIN in.v : TrimPrefix(k, prefix) = k2]])

(***************************************************************************)
(* Flatten and flatten                                                     *)
(***************************************************************************)

RECURSIVE flattenEntry(_, _, _, _)

\* The loop of flatten run over the entries `todo` in every order, w[k] being
\* what the turn for k can write: a later write to a key of out replaces an
\* earlier one.
RECURSIVE rangeOver(_, _, _)
rangeOver(w, todo, out) ==
    IF todo = {} THEN {out}
    ELSE UNION {UNION {rangeOver(w, todo \ {k}, e @@ out) : e \in w[k]} : k \in todo}

\* The maps flatten(in, not, root) can return, one for each order in which
\* `for k, v := range in` can visit the entries of in and of the maps below it.
flatten(in, not, root) ==
    rangeOver([k \in DOMAIN in |-> flattenEntry(k, in[k], not, root)], DOMAIN in, EmptyFn)

\* The loop body with the ignore test made on leaves only.
flattenEntryLeafIgnore(k, v, not, root) ==
    LET fk == SnakeCase(root \o levelSep \o k)
    IN  IF IsMap(v) THEN flatten(v.v, not, fk)
        ELSE IF fk \in not THEN {EmptyFn}
        ELSE {fk :> v}

\* The loop body with the leaf stored under its own name, not under its path.
flattenEntryLocalKey(k, v, not, root) ==
    LET fk == SnakeCase(root \o levelSep \o k)
    IN  IF fk \in not THEN {EmptyFn}
        ELSE IF IsMap(v) THEN flatten(v.v, not, fk)
        ELSE {SnakeCase(k) :> v}

\* One turn of the loop of flatten, for the entry k, v: the entries it writes
\* to out.
flattenEntry(k, v, not, root) ==
    LET fk == SnakeCase(root \o levelSep \o k)
    IN  IF fk \in not THEN {EmptyFn}
        ELSE IF IsMap(v) THEN flatten(v.v, not, fk)
        ELSE {fk :> v}

\* The set `not` built by Flatten from ignoredKeys.
notSet(ignoredKeys) == {SnakeCase(Join(v, levelSep)) : v \in ignoredKeys}

\* Flatten returning nil also when no key is left.
FlattenNilWhenNoKeys(d, ignoredKeys) ==
    IF MapLen(d) = 0 THEN {[flat |-> [t |-> "none"], ret |-> NilMap]}
    ELSE {[flat |-> MapOf(f),
           ret  |-> IF DOMAIN f = {} THEN NilMap ELSE simplify(MapOf(f))] :
             f \in flatten(d.v, notSet(ignoredKeys), rootName)}

\* D.Flatten(ignoredKeys...): the map flatten built and the map returned.
Flatten(d, ignoredKeys) ==
    IF MapLen(d) = 0 THEN {[flat |-> [t |-> "none"], ret |-> NilMap]}
    ELSE {[flat |-> MapOf(f), ret |-> simplify(MapOf(f))] :
             f \in flatten(d.v, notSet(ignoredKeys), rootName)}

(***************************************************************************)
(* Documents                                                               *)
(***************************************************************************)

RECURSIVE mapsWith(_, _, _, _)

\* The values that take c entries of a document: a leaf takes one, a map one
\* more than it holds.
valuesOfSize(allKeys, leaves, c) ==
    (IF c = 1 THEN leaves ELSE {}) \cup {MapOf(m) : m \in mapsWith(allKeys, leaves, allKeys, c - 1)}

\* The maps with keys among `keys` that hold n entries, nested ones counted.
mapsWith(allKeys, leaves, keys, n) ==
    IF n = 0 THEN {EmptyFn}
    ELSE IF keys = {} THEN {}
    ELSE LET k == CHOOSE x \in keys : TRUE
         IN  mapsWith(allKeys, leaves, keys \ {k}, n)
             \cup UNION {{(k :> v) @@ m : v \in valuesOfSize(allKeys, leaves, c),
                                          m \in mapsWith(allKeys, leaves, keys \ {k}, n - c)} :
                           c \in 1..n}

\* The subsets of S of at most n elements.
RECURSIVE SubsetsUpTo(_, _)
SubsetsUpTo(S, n) ==
    IF n = 0 \/ S = {} THEN {{}}
    ELSE LET x == CHOOSE y \in S : TRUE
             rest == SubsetsUpTo(S \ {x}, n)
         IN  rest \cup {r \cup {x} : r \in {q \in rest : Cardinality(q) < n}}

\* The sequences of at most n elements of S.
RECURSIVE SeqsUpTo(_, _)
SeqsUpTo(S, n) ==
    IF n = 0 THEN {<<>>}
    ELSE LET shorter == SeqsUpTo(S, n - 1)
         IN  shorter \cup {<<c>> \o s : c \in S, s \in {x \in shorter : Len(x) = n - 1}}

DocsUpTo(keys, leaves, n) == UNION {mapsWith(keys, leaves, keys, i) : i \in 0..n}

MaxEntries == 3

RawKeys == {<<"a">>, <<"b">>, <<"a", ":", "b">>}

FlattenLeaves == {Null, StringOf(<<"x">>), ArrayOf(<<MapOf(<<"a">> :> StringOf(<<"x">>))>>)}

IgnorePaths == {<<>>} \cup {<<k>> : k \in RawKeys} \cup {<<k1, k2>> : k1, k2 \in RawKeys}

\* Flatten() and Flatten(path): the ignored paths act one by one, each through
\* its own entry of the set `not`.
IgnoreLists == {{}} \cup {{p} : p \in IgnorePaths}

(***************************************************************************)
(* The settings of a document                                              *)
(***************************************************************************)

DefaultXMLName == <<"d">>

DefaultXMLArraySep == <<"|">>

XMLArray(sep) == [set |-> "xmlArraySep", to |-> sep]

XMLName(s) == [set |-> "xmlName", to |-> s]

XMLNS(s) == [set |-> "xmlns", to |-> s]

XMLAttributes(list) == [set |-> "xmlAttributes", to |-> list]

\* opt(d): XMLAttributes sets what it is given, the others skip "".
Apply(opt, d) ==
    IF opt.set # "xmlAttributes" /\ opt.to = <<>> THEN d
    ELSE [d EXCEPT ![opt.set] = opt.to]

RECURSIVE ApplyAll(_, _)
ApplyAll(opts, d) ==
    IF opts = <<>> THEN d ELSE ApplyAll(Tail(opts), Apply(Head(opts), d))

\* The fields New sets besides D.  A nil and an empty list of attributes are
\* not told apart: both encode to no attribute.
New(opts) ==
    ApplyAll(<<XMLArray(DefaultXMLArraySep), XMLName(DefaultXMLName)>> \o opts,
             [xmlArraySep |-> <<>>, xmlAttributes |-> <<>>, xmlName |-> <<>>, xmlns |-> <<>>])

None == [t |-> "none"]

\* d := New(m), or the zero D.
Init ==
    /\ D \in {NilMap} \cup {MapOf(m) : m \in DocsUpTo(RawKeys, FlattenLeaves, MaxEntries)}
    /\ op = "New"
    /\ args = None
    /\ flat = None
    /\ ret = None
    /\ settings = New(<<>>)
    /\ run = None

\* d.Flatten(ignoredKeys...)
CallFlatten ==
    /\ op = "New"
    /\ \E ignoredKeys \in IgnoreLists : \E o \in Flatten(D, ignoredKeys) :
           /\ op' = "Flatten"
           /\ args' = [ignoredKeys |-> ignoredKeys]
           /\ flat' = o.flat
           /\ ret' = o.ret
    /\ UNCHANGED <<D, settings, run>>

Next == CallFlatten

Spec == Init /\ [][Next]_vars

(***************************************************************************)
(* Properties of Flatten                                                   *)
(***************************************************************************)

\* The paths of m, as sequences of raw keys, that go through maps only and end
\* on a value that is no map.
RECURSIVE LeafPaths(_)
LeafPaths(m) ==
    UNION {IF IsMap(m[k]) THEN {<<k>> \o p : p \in LeafPaths(m[k].v)} ELSE {<<k>>} :
              k \in DOMAIN m}

RECURSIVE ValueAt(_, _)
ValueAt(m, path) ==
    IF Len(path) = 1 THEN m[path[1]] ELSE ValueAt(m[path[1]].v, Tail(path))

\* The normalized key of a path: its segments joined and put in snake case.
Normalized(path) == SnakeCase(Join(path, levelSep))

IsPathPrefix(p, q) == Len(p) <= Len(q) /\ SubSeq(q, 1, Len(p)) = p

\* Some path at or above `path` has the normalized key of an ignored path.
IgnoredAtOrAbove(path, ignoredKeys) ==
    LET ignored == {Normalized(i) : i \in ignoredKeys}
    IN  \E j \in 1..Len(path) : Normalized(SubSeq(path, 1, j)) \in ignored

Surviving(d, ignoredKeys) ==
    {p \in LeafPaths(d.v) : ~IgnoredAtOrAbove(p, ignoredKeys)}

Flattened == op = "Flatten" /\ MapLen(D) > 0

\* C1: when no two surviving leaf paths normalize to the same key, the map
\* built by flatten (before prefix compression) has exactly one entry for each
\* value that is no map, is reached from the root through maps only and has no
\* ignored path at or above it: its key is the normalized join of the path and
\* its value is that value unchanged, an array being one leaf.
C1_FlattenOneEntryPerLeaf ==
    Flattened =>
        LET live == Surviving(D, args.ignoredKeys)
            key  == [p \in live |-> Normalized(p)]
        IN  (\A p, q \in live : key[p] = key[q] => p = q) =>
                flat = MapOf([k \in {key[p] : p \in live} |->
                              ValueAt(D.v, CHOOSE p \in live : key[p] = k)])

\* A nested leaf kept beside a pruned branch, and an array of maps kept whole.
C1_Witness ==
    /\ Flattened
    /\ \A p, q \in Surviving(D, args.ignoredKeys) : Normalized(p) = Normalized(q) => p = q
    /\ \E p \in Surviving(D, args.ignoredKeys) : Len(p) = 2
    /\ \E p \in LeafPaths(D.v) : IgnoredAtOrAbove(p, args.ignoredKeys)
    /\ \E k \in KeysOf(flat) : flat.v[k].t = "[]interface {}"

C3_NilOnlyForEmptyDocument ==
    op = "Flatten" =>
        /\ ret.isnil <=> MapLen(D) = 0
        /\ (MapLen(D) > 0 /\ Surviving(D, args.ignoredKeys) = {}) => ret = MapOf(EmptyFn)

C3_Witness ==
    /\ op = "Flatten"
    /\ MapLen(D) > 0
    /\ LeafPaths(D.v) # {}
    /\ Surviving(D, args.ignoredKeys) = {}
    /\ ~ret.isnil

(***************************************************************************)
(* Inputs of simplify: flat maps                                           *)
(***************************************************************************)

MaxLen == 3

MaxKeys == 3

KeyRunes == {"_", "a"}

FlatKeys == SeqsUpTo(KeyRunes, MaxLen) \ {<<>>}

\* Every value is a string naming the key it was stored under, so that a value
\* moved to another key shows.
FlatMaps == {MapOf([k \in ks |-> StringOf(k)]) : ks \in SubsetsUpTo(FlatKeys, MaxKeys)}

InitSimplify ==
    /\ D = NilMap
    /\ op = "init"
    /\ args \in {[in |-> m] : m \in FlatMaps \cup {NilMap}}
    /\ flat = NilMap
    /\ ret = None
    /\ settings = New(<<>>)
    /\ run = None

\* simplify(in)
CallSimplify ==
    /\ op = "init"
    /\ op' = "simplify"
    /\ ret' = simplify(args.in)
    /\ UNCHANGED <<D, settings, args, flat, run>>

\* simplify applied to the map an earlier simplify returned
CallSimplifyOnOutput ==
    /\ op = "simplify"
    /\ op' = "simplify.output"
    /\ args' = [in |-> ret]
    /\ ret' = simplify(ret)
    /\ UNCHANGED <<D, settings, flat, run>>

NextSimplify == CallSimplify \/ CallSimplifyOnOutput

SpecSimplify == InitSimplify /\ [][NextSimplify]_vars

(***************************************************************************)
(* Properties of simplify                                                  *)
(***************************************************************************)

SimplifyReturned == op \in {"simplify", "simplify.output"}

Prefixes(s) == {SubSeq(s, 1, i) : i \in 0..Len(s)}

\* The strings that start every key of a non-empty key set.
SharedPrefixes(keys) ==
    {p \in Prefixes(CHOOSE k \in keys : TRUE) : \A k \in keys : HasPrefix(k, p)}

Longest(ps) == CHOOSE p \in ps : \A q \in ps : Len(q) <= Len(p)

EndsOnSep(p) == p # <<>> /\ p[Len(p)] = keySep

\* m with the shared prefix p taken off every key.
Stripped(m, p) ==
    MapOf([k2 \in {SubSeq(k, Len(p) + 1, Len(k)) : k \in KeysOf(m)} |-> m.v[p \o k2]])

\* C4: for a flat map with at least two keys, simplify removes from every key
\* the longest string that starts every key and ends on '_'; with no such
\* non-empty string the map is returned unchanged.
C4_LongestSharedSegmentStripped ==
    (SimplifyReturned /\ MapLen(args.in) >= 2) =>
        LET segs == {p \in SharedPrefixes(KeysOf(args.in)) : p = <<>> \/ EndsOnSep(p)}
        IN  ret = IF Longest(segs) = <<>> THEN args.in ELSE Stripped(args.in, Longest(segs))

\* C5: when simplify changes a map, what it strips is non-empty, starts every
\* key of the input and ends with '_'; a map whose keys share no prefix that
\* ends on a separator (geek1/geek2, or only some keys sharing one) and a map
\* of 0 or 1 entries are returned unchanged.
C5_StripsOnlyAtSeparator ==
    SimplifyReturned =>
        /\ ret # args.in =>
              \E p \in SharedPrefixes(KeysOf(args.in)) :
                  EndsOnSep(p) /\ ret = Stripped(args.in, p)
        /\ (MapLen(args.in) <= 1 \/ ~EndsOnSep(Longest(SharedPrefixes(KeysOf(args.in)))))
              => ret = args.in

C5_Witness ==
    /\ op = "simplify"
    /\ MapLen(args.in) = 3
    /\ ret # args.in

\* C6: simplify is idempotent on its own output: simplify(simplify(M)) has the
\* keys and the values of simplify(M).
C6_SimplifyIdempotent == op = "simplify.output" => ret = args.in

\* The first simplify stripped a prefix (a value names the key it had at first)
\* and a separator is left in the keys it returned.
C6_Witness ==
    /\ op = "simplify.output"
    /\ MapLen(args.in) >= 2
    /\ \E k \in KeysOf(args.in) : args.in.v[k].v # k
    /\ \E k \in KeysOf(args.in) : \E i \in 1..Len(k) : k[i] = keySep

(***************************************************************************)
(* Errors                                                                  *)
(***************************************************************************)

NoErr == [kind |-> "nil", exp |-> "", got |-> ""]

ErrNotFound == [kind |-> "ErrNotFound", exp |-> "", got |-> ""]

\* What %T prints for a value.
TypeOf(x) == IF x.t = "nil" THEN "<nil>" ELSE x.t

\* An error wrapping ErrOutOfRange: "%w: %T expected, got %T".
newErrOutOfRange(exp, got) == [kind |-> "ErrOutOfRange", exp |-> exp, got |-> got]

\* The *strconv.NumError of a text that is no literal of the type asked.  A
\* range error needs a text of 19 digits or more, longer than the texts used.
ErrSyntax == [kind |-> "strconv.ErrSyntax", exp |-> "", got |-> ""]

\* The *time.ParseError of time.Parse.
ErrTimeParse == [kind |-> "time.ParseError", exp |-> "", got |-> ""]

(***************************************************************************)
(* strconv and time, on the texts used                                     *)
(***************************************************************************)

DigitVal == ("0" :> 0) @@ ("1" :> 1) @@ ("2" :> 2) @@ ("5" :> 5)

IsDigits(s) == s # <<>> /\ \A i \in 1..Len(s) : IsDigit(s[i])

RECURSIVE Decimal(_)
Decimal(s) ==
    IF s = <<>> THEN 0 ELSE 10 * Decimal(SubSeq(s, 1, Len(s) - 1)) + DigitVal[s[Len(s)]]

\* strconv.ParseBool, the upper-case literals left out.
ParseBool(str) ==
    IF str \in {<<"1">>, <<"t">>, <<"t", "r", "u", "e">>} THEN [v |-> TRUE, err |-> NoErr]
    ELSE IF str \in {<<"0">>, <<"f">>, <<"f", "a", "l", "s", "e">>} THEN [v |-> FALSE, err |-> NoErr]
    ELSE [v |-> FALSE, err |-> ErrSyntax]

\* strconv.ParseUint(s, 10, 64)
ParseUint(s) ==
    IF IsDigits(s) THEN [v |-> Decimal(s), err |-> NoErr] ELSE [v |-> 0, err |-> ErrSyntax]

\* strconv.ParseInt(s, 10, 64)
ParseInt(s) ==
    IF s # <<>> /\ Head(s) \in {"+", "-"}
    THEN IF IsDigits(Tail(s))
         THEN [v |-> IF Head(s) = "-" THEN 0 - Decimal(Tail(s)) ELSE Decimal(Tail(s)), err |-> NoErr]
         ELSE [v |-> 0, err |-> ErrSyntax]
    ELSE ParseUint(s)

\* strconv.ParseFloat(s, 64) on decimal texts with at most one digit after the
\* point; the value is counted in tenths, as in FloatOf.
ParseFloat(s) ==
    LET signed == s # <<>> /\ Head(s) \in {"+", "-"}
        body   == IF signed THEN Tail(s) ELSE s
        dots   == {i \in 1..Len(body) : body[i] = "."}
        whole  == IF dots = {} THEN body ELSE SubSeq(body, 1, (CHOOSE i \in dots : TRUE) - 1)
        frac   == IF dots = {} THEN <<>> ELSE SubSeq(body, (CHOOSE i \in dots : TRUE) + 1, Len(body))
        ok     == /\ Cardinality(dots) <= 1
                  /\ Len(whole) + Len(frac) > 0
                  /\ Len(frac) <= 1
                  /\ \A i \in 1..Len(whole) : IsDigit(whole[i])
                  /\ \A i \in 1..Len(frac) : IsDigit(frac[i])
        tenths == 10 * Decimal(whole) + Decimal(frac)
    IN  IF ok THEN [v |-> IF signed /\ Head(s) = "-" THEN 0 - tenths ELSE tenths, err |-> NoErr]
        ELSE [v |-> 0, err |-> ErrSyntax]

\* time.Time{}
ZeroTime == [year |-> 1, month |-> 1, day |-> 1, hour |-> 0]

\* time.Parse(layout, s) for the layouts "2" (day of the month, one or two
\* digits) and "15" (hour, two digits).
ParseTime(layout, s) ==
    IF layout = <<"2">> /\ IsDigits(s) /\ Len(s) <= 2 /\ Decimal(s) >= 1 /\ Decimal(s) <= 31
    THEN [v |-> [year |-> 0, month |-> 1, day |-> Decimal(s), hour |-> 0], err |-> NoErr]
    ELSE IF layout = <<"1", "5">> /\ IsDigits(s) /\ Len(s) = 2 /\ Decimal(s) <= 23
    THEN [v |-> [year |-> 0, month |-> 1, day |-> 1, hour |-> Decimal(s)], err |-> NoErr]
    ELSE [v |-> ZeroTime, err |-> ErrTimeParse]

(***************************************************************************)
(* The coercions of format.go                                              *)
(***************************************************************************)

\* int64(v) of a float64 counted in tenths: the fraction is dropped.
Truncate(n) == IF n >= 0 THEN n \div 10 ELSE 0 - ((0 - n) \div 10)

\* toBool without the string case.
toBoolNativeOnly(m) ==
    IF m.t = "bool" THEN [v |-> m.v, err |-> NoErr]
    ELSE [v |-> FALSE, err |-> newErrOutOfRange("bool", TypeOf(m))]

toBool(m) ==
    CASE m.t = "bool" -> [v |-> m.v, err |-> NoErr]
      [] m.t = "string" -> ParseBool(m.v)
      [] OTHER -> [v |-> FALSE, err |-> newErrOutOfRange("bool", TypeOf(m))]

toFloat64(m) ==
    CASE m.t = "float64" -> [v |-> m.v, err |-> NoErr]
      [] m.t = "json.Number" -> ParseFloat(m.v)
      [] m.t = "string" -> ParseFloat(m.v)
      [] OTHER -> [v |-> 0, err |-> newErrOutOfRange("float64", TypeOf(m))]

toInt64(m) ==
    CASE m.t = "float64" -> [v |-> Truncate(m.v), err |-> NoErr]
      [] m.t = "json.Number" -> ParseInt(m.v)
      [] m.t = "string" -> ParseInt(m.v)
      [] OTHER -> [v |-> 0, err |-> newErrOutOfRange("int64", TypeOf(m))]

toString(m) ==
    IF m.t # "string" THEN [v |-> <<>>, err |-> newErrOutOfRange("string", TypeOf(m))]
    ELSE [v |-> m.v, err |-> NoErr]

\* The results toUint64(m) can have.  A uint64 n is held as an integer equal to
\* n modulo 2^64.  uint64(v) of a float64 below zero is left to the
\* implementation by the language: it wraps around on amd64 and is 0 on arm64.
toUint64(m) ==
    CASE m.t = "float64" ->
            IF Truncate(m.v) >= 0 THEN {[v |-> Truncate(m.v), err |-> NoErr]}
            ELSE {[v |-> Truncate(m.v), err |-> NoErr], [v |-> 0, err |-> NoErr]}
      [] m.t = "json.Number" -> {ParseUint(m.v)}
      [] m.t = "string" -> {ParseUint(m.v)}
      [] OTHER -> {[v |-> 0, err |-> newErrOutOfRange("uint64", TypeOf(m))]}

\* A []string; isnil tells the nil slice from an empty one.
Slice(a) == [v |-> a, isnil |-> FALSE]

NilSlice == [v |-> <<>>, isnil |-> TRUE]

\* toStrings returning, with the error, the elements coerced before it.
toStringsPartial(m) ==
    IF m.t # "[]interface {}"
    THEN [v |-> NilSlice, err |-> newErrOutOfRange("[]string", "[]interface {}")]
    ELSE LET bad == {i \in 1..Len(m.v) : toString(m.v[i]).err # NoErr}
         IN  [v |-> Slice([i \in 1..Len(m.v) |-> toString(m.v[i]).v]),
              err |-> IF bad = {} THEN NoErr
                      ELSE toString(m.v[CHOOSE i \in bad : \A j \in bad : i <= j]).err]

\* The part of D.Strings that follows Lookup.  The error of a value that is no
\* array names the type of v, the nil []interface{} of the failed assertion.
toStrings(m) ==
    IF m.t # "[]interface {}"
    THEN [v |-> NilSlice, err |-> newErrOutOfRange("[]string", "[]interface {}")]
    ELSE LET bad == {i \in 1..Len(m.v) : toString(m.v[i]).err # NoErr}
         IN  IF bad # {}
             THEN [v |-> NilSlice,
                   err |-> toString(m.v[CHOOSE i \in bad : \A j \in bad : i <= j]).err]
             ELSE [v |-> Slice([i \in 1..Len(m.v) |-> toString(m.v[i]).v]), err |-> NoErr]

\* The part of D.Time that follows Lookup.
toTime(layout, m) ==
    LET s == toString(m)
    IN  IF s.err # NoErr THEN [v |-> ZeroTime, err |-> s.err] ELSE ParseTime(layout, s.v)

(***************************************************************************)
(* Lookup and the typed getters                                            *)
(***************************************************************************)

\* The loop of Lookup from its turn i on, v being the value reached.
RECURSIVE lookupFrom(_, _, _)
lookupFrom(v, keys, i) ==
    IF i > Len(keys) THEN [v |-> v, err |-> NoErr]
    ELSE IF ~IsMap(v) THEN [v |-> Null, err |-> ErrNotFound]
    ELSE IF keys[i] \notin DOMAIN v.v THEN [v |-> Null, err |-> ErrNotFound]
    ELSE lookupFrom(v.v[keys[i]], keys, i + 1)

\* Lookup without the test of len(keys).
LookupAnyLength(d, keys) == lookupFrom(d, keys, 1)

Lookup(d, keys) ==
    IF Len(keys) = 0 THEN [v |-> Null, err |-> ErrNotFound] ELSE lookupFrom(d, keys, 1)

\* Bool with the error of Lookup dropped.
BoolUnchecked(d, keys) == toBool(Lookup(d, keys).v)

Bool(d, keys) ==
    LET m == Lookup(d, keys)
    IN  IF m.err # NoErr THEN [v |-> FALSE, err |-> m.err] ELSE toBool(m.v)

Float64(d, keys) ==
    LET m == Lookup(d, keys)
    IN  IF m.err # NoErr THEN [v |-> 0, err |-> m.err] ELSE toFloat64(m.v)

Int64(d, keys) ==
    LET m == Lookup(d, keys)
    IN  IF m.err # NoErr THEN [v |-> 0, err |-> m.err] ELSE toInt64(m.v)

String(d, keys) ==
    LET m == Lookup(d, keys)
    IN  IF m.err # NoErr THEN [v |-> <<>>, err |-> m.err] ELSE toString(m.v)

Strings(d, keys) ==
    LET m == Lookup(d, keys)
    IN  IF m.err # NoErr THEN [v |-> NilSlice, err |-> m.err] ELSE toStrings(m.v)

Time(d, layout, keys) ==
    LET m == Lookup(d, keys)
    IN  IF m.err # NoErr THEN [v |-> ZeroTime, err |-> m.err] ELSE toTime(layout, m.v)

\* The results Uint64 can have (see toUint64).
Uint64(d, keys) ==
    LET m == Lookup(d, keys)
    IN  IF m.err # NoErr THEN {[v |-> 0, err |-> m.err]} ELSE toUint64(m.v)

\* The lenient getters: the getter with its error dropped.
ShouldBool(d, keys) == Bool(d, keys).v

ShouldFloat64(d, keys) == Float64(d, keys).v

ShouldInt64(d, keys) == Int64(d, keys).v

ShouldString(d, keys) == String(d, keys).v

ShouldStrings(d, keys) == Strings(d, keys).v

ShouldTime(d, layout, keys) == Time(d, layout, keys).v

\* The results ShouldUint64 can have (see toUint64).
ShouldUint64(d, keys) == {r.v : r \in Uint64(d, keys)}

(***************************************************************************)
(* Calls of Lookup and of the getters on a document                        *)
(***************************************************************************)

MaxDocEntries == 2

MaxPathLen == 2

Names == {<<"a">>, <<"b">>}

Leaves ==
    {Null, BoolOf(TRUE), FloatOf(15), FloatOf(-15),
     NumberOf(<<"1">>), NumberOf(<<"-", "1">>), NumberOf(<<"1", ".", "5">>),
     StringOf(<<>>), StringOf(<<"t">>), StringOf(<<"1">>), StringOf(<<"-", "1">>), StringOf(<<"1", "5">>),
     ArrayOf(<<StringOf(<<"1">>), StringOf(<<"t">>)>>),
     ArrayOf(<<NumberOf(<<"1">>)>>),
     ArrayOf(<<StringOf(<<"1">>), BoolOf(TRUE), Null>>)}

KeyPaths == SeqsUpTo(Names, MaxPathLen)

Layouts == {<<"2">>, <<"1", "5">>}

InitAccess ==
    /\ D \in {NilMap} \cup {MapOf(m) : m \in DocsUpTo(Names, Leaves, MaxDocEntries)}
    /\ op = "New"
    /\ args = None
    /\ flat = None
    /\ ret = None
    /\ settings = New(<<>>)
    /\ run = None

CallLookup ==
    \E keys \in KeyPaths :
        /\ op = "New"
        /\ op' = "Lookup"
        /\ args' = [keys |-> keys]
        /\ ret' = Lookup(D, keys)
        /\ UNCHANGED <<D, settings, flat, run>>

CallBool ==
    \E keys \in KeyPaths :
        /\ op = "New"
        /\ op' = "Bool"
        /\ args' = [keys |-> keys]
        /\ ret' = Bool(D, keys)
        /\ UNCHANGED <<D, settings, flat, run>>

CallFloat64 ==
    \E keys \in KeyPaths :
        /\ op = "New"
        /\ op' = "Float64"
        /\ args' = [keys |-> keys]
        /\ ret' = Float64(D, keys)
        /\ UNCHANGED <<D, settings, flat, run>>

CallInt64 ==
    \E keys \in KeyPaths :
        /\ op = "New"
        /\ op' = "Int64"
        /\ args' = [keys |-> keys]
        /\ ret' = Int64(D, keys)
        /\ UNCHANGED <<D, settings, flat, run>>

CallString ==
    \E keys \in KeyPaths :
        /\ op = "New"
        /\ op' = "String"
        /\ args' = [keys |-> keys]
        /\ ret' = String(D, keys)
        /\ UNCHANGED <<D, settings, flat, run>>

CallStrings ==
    \E keys \in KeyPaths :
        /\ op = "New"
        /\ op' = "Strings"
        /\ args' = [keys |-> keys]
        /\ ret' = Strings(D, keys)
        /\ UNCHANGED <<D, settings, flat, run>>

CallTime ==
    \E keys \in KeyPaths : \E layout \in Layouts :
        /\ op = "New"
        /\ op' = "Time"
        /\ args' = [keys |-> keys, layout |-> layout]
        /\ ret' = Time(D, layout, keys)
        /\ UNCHANGED <<D, settings, flat, run>>

CallUint64 ==
    \E keys \in KeyPaths : \E r \in Uint64(D, keys) :
        /\ op = "New"
        /\ op' = "Uint64"
        /\ args' = [keys |-> keys]
        /\ ret' = r
        /\ UNCHANGED <<D, settings, flat, run>>

CallShouldBool ==
    \E keys \in KeyPaths :
        /\ op = "New"
        /\ op' = "ShouldBool"
        /\ args' = [keys |-> keys]
        /\ ret' = [v |-> ShouldBool(D, keys)]
        /\ UNCHANGED <<D, settings, flat, run>>

CallShouldFloat64 ==
    \E keys \in KeyPaths :
        /\ op = "New"
        /\ op' = "ShouldFloat64"
        /\ args' = [keys |-> keys]
        /\ ret' = [v |-> ShouldFloat64(D, keys)]
        /\ UNCHANGED <<D, settings, flat, run>>

CallShouldInt64 ==
    \E keys \in KeyPaths :
        /\ op = "New"
        /\ op' = "ShouldInt64"
        /\ args' = [keys |-> keys]
        /\ ret' = [v |-> ShouldInt64(D, keys)]
        /\ UNCHANGED <<D, settings, flat, run>>

CallShouldString ==
    \E keys \in KeyPaths :
        /\ op = "New"
        /\ op' = "ShouldString"
        /\ args' = [keys |-> keys]
        /\ ret' = [v |-> ShouldString(D, keys)]
        /\ UNCHANGED <<D, settings, flat, run>>

CallShouldStrings ==
    \E keys \in KeyPaths :
        /\ op = "New"
        /\ op' = "ShouldStrings"
        /\ args' = [keys |-> keys]
        /\ ret' = [v |-> ShouldStrings(D, keys)]
        /\ UNCHANGED <<D, settings, flat, run>>

CallShouldTime ==
    \E keys \in KeyPaths : \E layout \in Layouts :
        /\ op = "New"
        /\ op' = "ShouldTime"
        /\ args' = [keys |-> keys, layout |-> layout]
        /\ ret' = [v |-> ShouldTime(D, layout, keys)]
        /\ UNCHANGED <<D, settings, flat, run>>

CallShouldUint64 ==
    \E keys \in KeyPaths : \E r \in ShouldUint64(D, keys) :
        /\ op = "New"
        /\ op' = "ShouldUint64"
        /\ args' = [keys |-> keys]
        /\ ret' = [v |-> r]
        /\ UNCHANGED <<D, settings, flat, run>>

NextAccess ==
    \/ CallLookup
    \/ CallBool
    \/ CallFloat64
    \/ CallInt64
    \/ CallString
    \/ CallStrings
    \/ CallTime
    \/ CallUint64
    \/ CallShouldBool
    \/ CallShouldFloat64
    \/ CallShouldInt64
    \/ CallShouldString
    \/ CallShouldStrings
    \/ CallShouldTime
    \/ CallShouldUint64

SpecAccess == InitAccess /\ [][NextAccess]_vars

(***************************************************************************)
(* Properties of Lookup and of the getters                                 *)
(***************************************************************************)

\* From v down, every step finds a mapping that holds the next key.
RECURSIVE PathExists(_, _)
PathExists(v, keys) ==
    \/ keys = <<>>
    \/ /\ IsMap(v)
       /\ Head(keys) \in DOMAIN v.v
       /\ PathExists(v.v[Head(keys)], Tail(keys))

Resolves(d, keys) == keys # <<>> /\ PathExists(d, keys)

Getters == {"Bool", "Float64", "Int64", "Uint64", "String", "Strings", "Time"}

\* C7: Lookup succeeds exactly when keys is not empty and every step of the
\* descent from the root finds a mapping holding the next key; it then
\* returns the value stored at the path, a stored null included.  In every
\* other case it returns nil and the not-found error.
C7_LookupFollowsPath ==
    op = "Lookup" =>
        IF Resolves(D, args.keys)
        THEN ret = [v |-> ValueAt(D.v, args.keys), err |-> NoErr]
        ELSE ret = [v |-> Null, err |-> ErrNotFound]

\* Lookup has returned a null stored two levels down, with no error.
C7_Witness ==
    /\ op = "Lookup"
    /\ Len(args.keys) = 2
    /\ Resolves(D, args.keys)
    /\ ret = [v |-> Null, err |-> NoErr]

\* The zero value a getter returns with an error of Lookup.
ZeroOf(name) ==
    CASE name = "Bool" -> FALSE
      [] name \in {"Float64", "Int64", "Uint64"} -> 0
      [] name = "String" -> <<>>
      [] name = "Strings" -> NilSlice
      [] name = "Time" -> ZeroTime

\* What the coercion of a getter can return for the value m.
Coerced(name, m) ==
    CASE name = "Bool" -> {toBool(m)}
      [] name = "Float64" -> {toFloat64(m)}
      [] name = "Int64" -> {toInt64(m)}
      [] name = "Uint64" -> toUint64(m)
      [] name = "String" -> {toString(m)}
      [] name = "Strings" -> {toStrings(m)}
      [] name = "Time" -> {toTime(args.layout, m)}

\* C8: a getter whose path does not resolve returns the zero value of its type
\* and the not-found error, whatever stands on the way; a getter whose path
\* resolves returns what its coercion returns for the value stored there.
C8_GetterIsLookupThenCoercion ==
    op \in Getters =>
        IF Resolves(D, args.keys)
        THEN ret \in Coerced(op, ValueAt(D.v, args.keys))
        ELSE ret = [v |-> ZeroOf(op), err |-> ErrNotFound]

\* Bool has gone through a string that holds a boolean literal and has
\* returned not-found, no type error.
C8_Witness ==
    /\ op = "Bool"
    /\ Len(args.keys) = 2
    /\ PathExists(D, <<args.keys[1]>>)
    /\ D.v[args.keys[1]] = StringOf(<<"t">>)
    /\ ret = [v |-> FALSE, err |-> ErrNotFound]

ErrorReturning == {"Lookup", "Bool", "Float64", "Int64", "Uint64", "String", "Strings"}

\* C9 as stated: every error of Lookup and of the getters Bool, Float64,
\* Int64, Uint64, String and Strings is not-found or type-mismatch.
C9_TwoErrorKindsOnly ==
    op \in ErrorReturning => ret.err.kind \in {"nil", "ErrNotFound", "ErrOutOfRange"}

\* C9: every error of Lookup and of the getters Bool, Float64, Int64, Uint64,
\* String and Strings is not-found, type-mismatch or the syntax error of
\* strconv.  A value that is present fails with type-mismatch when its type is
\* none the coercion takes (for Bool: neither bool nor string), and with the
\* error of strconv when it is a text (a string; for the numeric getters a
\* json.Number too) that is no literal of the type asked.
C9_ThreeErrorKinds ==
    op \in ErrorReturning =>
        /\ ret.err.kind \in {"nil", "ErrNotFound", "ErrOutOfRange", "strconv.ErrSyntax"}
        /\ ret.err.kind = "ErrNotFound" <=> ~Resolves(D, args.keys)
        /\ Resolves(D, args.keys) =>
              LET m == ValueAt(D.v, args.keys)
                  texts == IF op = "Bool" THEN {"string"} ELSE {"string", "json.Number"}
              IN  /\ ret.err.kind = "strconv.ErrSyntax" =>
                        op \in {"Bool", "Float64", "Int64", "Uint64"} /\ m.t \in texts
                  /\ op = "Bool" =>
                        CASE m.t = "bool" -> ret = [v |-> m.v, err |-> NoErr]
                          [] m.t = "string" ->
                                ret.err.kind = IF ParseBool(m.v).err = NoErr
                                               THEN "nil" ELSE "strconv.ErrSyntax"
                          [] OTHER -> ret = [v |-> FALSE, err |-> newErrOutOfRange("bool", TypeOf(m))]

\* Bool has found a string that holds no boolean literal and has returned the
\* error of strconv.
C9_Witness ==
    /\ op = "Bool"
    /\ Resolves(D, args.keys)
    /\ ValueAt(D.v, args.keys) = StringOf(<<>>)
    /\ ret = [v |-> FALSE, err |-> ErrSyntax]

\* C10 as stated: String returns a string unchanged and a json.Number as its
\* text; for any other value it returns "" and a type-mismatch error.
C10_StringTakesStringAndNumber ==
    op = "String" /\ Resolves(D, args.keys) =>
        LET m == ValueAt(D.v, args.keys)
        IN  IF m.t \in {"string", "json.Number"}
            THEN ret = [v |-> m.v, err |-> NoErr]
            ELSE ret.v = <<>> /\ ret.err.kind = "ErrOutOfRange"

\* C11 as stated: Strings fails with type-mismatch on a value that is no array;
\* on an array it returns the texts of the elements, in order, when each is a
\* string or a json.Number, and otherwise nothing but the type-mismatch of the
\* first element that is neither.
C11_StringsTakesStringsAndNumbers ==
    op = "Strings" /\ Resolves(D, args.keys) =>
        LET m == ValueAt(D.v, args.keys)
        IN  IF m.t # "[]interface {}"
            THEN ret.v = NilSlice /\ ret.err.kind = "ErrOutOfRange"
            ELSE LET bad == {i \in 1..Len(m.v) : m.v[i].t \notin {"string", "json.Number"}}
                 IN  IF bad = {}
                     THEN ret = [v |-> Slice([i \in 1..Len(m.v) |-> m.v[i].v]), err |-> NoErr]
                     ELSE /\ ret.v = NilSlice
                          /\ ret.err = newErrOutOfRange("string",
                                TypeOf(m.v[CHOOSE i \in bad : \A j \in bad : i <= j]))

\* The getter a lenient getter stands for.
Strict ==
    [n \in {"Should" \o g : g \in Getters} |-> CHOOSE g \in Getters : n = "Should" \o g]

\* C12: a lenient getter returns a value and no error: the value its getter
\* returns when the getter succeeds, and the zero value of the type when the
\* getter fails, whether the path does not resolve or the coercion of the
\* value found fails.
C12_ShouldGetterZeroOnError ==
    op \in DOMAIN Strict =>
        /\ DOMAIN ret = {"v"}
        /\ IF Resolves(D, args.keys)
           THEN \E c \in Coerced(Strict[op], ValueAt(D.v, args.keys)) :
                    ret.v = IF c.err = NoErr THEN c.v ELSE ZeroOf(Strict[op])
           ELSE ret.v = ZeroOf(Strict[op])

\* ShouldStrings has found an array whose second element is no string and has
\* returned the nil slice.
C12_Witness ==
    /\ op = "ShouldStrings"
    /\ Resolves(D, args.keys)
    /\ ValueAt(D.v, args.keys) = ArrayOf(<<StringOf(<<"1">>), BoolOf(TRUE), Null>>)
    /\ ret.v = NilSlice

(***************************************************************************)
(* UnmarshalXML: the tokens of encoding/xml, the loop and expanded         *)
(***************************************************************************)

xmlNSSep == <<":">>

xmlLevelSep == ">"

\* xml.Name
Name(space, local) == [Space |-> space, Local |-> local]

\* xml.Attr
Attr(name, value) == [Name |-> name, Value |-> value]

StartElement(name, attr) == [t |-> "StartElement", Name |-> name, Attr |-> attr]

CharData(text) == [t |-> "CharData", v |-> text]

EndElement == [t |-> "EndElement"]

Comment == [t |-> "Comment"]

\* What dec.Token returns with no token.
EOF == [kind |-> "io.EOF", exp |-> "", got |-> ""]

SyntaxError == [kind |-> "xml.SyntaxError", exp |-> "", got |-> ""]

\* strings.Split(s, sep) for a separator of one character
RECURSIVE Split(_, _)
Split(s, sep) ==
    LET at == {i \in 1..Len(s) : s[i] = sep}
    IN  IF at = {} THEN <<s>>
        ELSE LET i == CHOOSE j \in at : \A k \in at : j <= k
             IN  <<SubSeq(s, 1, i - 1)>> \o Split(SubSeq(s, i + 1, Len(s)), sep)

\* attr: every attribute of the start element, by value, the later first.
RECURSIVE attrOf(_)
attrOf(list) ==
    IF list = <<>> THEN EmptyFn
    ELSE LET v == list[Len(list)]
         IN  (v.Value :> v.Name.Local) @@ attrOf(SubSeq(list, 1, Len(list) - 1))

xmlName(name, space) ==
    IF name.Space \in DOMAIN space THEN space[name.Space] \o xmlNSSep \o name.Local
    ELSE name.Local

\* The variables of UnmarshalXML before its loop.
declared(start) ==
    [attr |-> attrOf(start.Attr),
     tree |-> <<xmlName(start.Name, attrOf(start.Attr))>>,
     temp |-> EmptyFn,
     name |-> <<>>,
     data |-> <<>>,
     grow |-> FALSE]

\* One turn of the loop recording at every end element.
onTokenEveryEnd(l, token) ==
    CASE token.t = "StartElement" ->
            [l EXCEPT !.tree = Append(@, xmlName(token.Name, l.attr)), !.grow = TRUE]
      [] token.t = "CharData" -> [l EXCEPT !.data = token.v]
      [] token.t = "EndElement" ->
            LET name == l.tree[Len(l.tree)]
                tree == SubSeq(l.tree, 1, Len(l.tree) - 1)
            IN  [l EXCEPT !.name = name, !.tree = tree, !.grow = FALSE,
                          !.temp = (Join(Append(tree, name), <<xmlLevelSep>>)
                                       :> StringOf(l.data)) @@ @]
      [] OTHER -> l

\* One turn of the loop: the switch on the token read.
onToken(l, token) ==
    CASE token.t = "StartElement" ->
            [l EXCEPT !.tree = Append(@, xmlName(token.Name, l.attr)), !.grow = TRUE]
      [] token.t = "CharData" -> [l EXCEPT !.data = token.v]
      [] token.t = "EndElement" ->
            LET name == l.tree[Len(l.tree)]
                tree == SubSeq(l.tree, 1, Len(l.tree) - 1)
            IN  IF ~l.grow THEN [l EXCEPT !.name = name, !.tree = tree]
                ELSE [l EXCEPT !.name = name, !.tree = tree, !.grow = FALSE,
                               !.temp = (Join(Append(tree, name), <<xmlLevelSep>>)
                                            :> StringOf(l.data)) @@ @]
      [] OTHER -> l

\* mv(m, to)[key] = v, on the map m.  The assertion m[to[i]].(map[string]
\* interface{}) panics on a value that is no map: ok is then FALSE and m the
\* map as it stands.
RECURSIVE put(_, _, _, _)

\* mv that never descends: the value is stored in the map given.
putFlat(m, to, key, v) == [ok |-> TRUE, m |-> (key :> v) @@ m]

put(m, to, key, v) ==
    IF Len(to) <= 1 THEN [ok |-> TRUE, m |-> (key :> v) @@ m]
    ELSE LET h == Head(to)
         IN  IF h \in DOMAIN m /\ ~IsMap(m[h]) THEN [ok |-> FALSE, m |-> m]
             ELSE LET r == put(IF h \in DOMAIN m THEN m[h].v ELSE EmptyFn, Tail(to), key, v)
                  IN  [ok |-> r.ok, m |-> (h :> MapOf(r.m)) @@ m]

\* The loop of expanded from out on, over the keys todo in every order.
RECURSIVE expandOver(_, _, _)
expandOver(in, todo, out) ==
    IF todo = {} THEN {[ok |-> TRUE, m |-> out]}
    ELSE UNION {LET a == Split(k, xmlLevelSep)
                    r == put(out, Tail(a), a[Len(a)], in[k])
                IN  IF r.ok THEN expandOver(in, todo \ {k}, r.m) ELSE {r} : k \in todo}

\* What expanded(in, out) can leave in the empty map out.
expanded(in) == expandOver(in, DOMAIN in, EmptyFn)

\* The variables of UnmarshalXML after its loop has read tokens.
RECURSIVE tokenLoop(_, _)
tokenLoop(l, tokens) ==
    IF tokens = <<>> THEN l ELSE tokenLoop(onToken(l, Head(tokens)), Tail(tokens))

\* The panic of a failed type assertion in expanded.
Panicked == [kind |-> "panic", exp |-> "map[string]interface {}", got |-> "string"]

\* What UnmarshalXML can leave in d.D and return (or panic with) once its loop
\* is left with the variables l: the error of dec.Token is dropped.
unmarshalled(l) ==
    {[D |-> MapOf(r.m), err |-> IF r.ok THEN NoErr ELSE Panicked] : r \in expanded(l.temp)}

\* UnmarshalXML on a decoder that gives tokens and then fails.
UnmarshalXML(start, tokens) == unmarshalled(tokenLoop(declared(start), tokens))

(***************************************************************************)
(* UnmarshalXML on the token streams of a decoder                          *)
(***************************************************************************)

MaxTokens == 5

\* The elements open in the decoder after it gave the tokens read, the
\* start element handed to UnmarshalXML included.
Depth(read) ==
    1 + Cardinality({i \in 1..Len(read) : read[i].t = "StartElement"})
      - Cardinality({i \in 1..Len(read) : read[i].t = "EndElement"})

RootAttrs ==
    {<<>>,
     <<Attr(Name(<<"x", "m", "l", "n", "s">>, <<"t">>), <<"u">>)>>,
     <<Attr(Name(<<>>, <<"x">>), <<>>)>>}

Starts == {StartElement(Name(<<>>, DefaultXMLName), a) : a \in RootAttrs}

ElementNames == {Name(<<>>, <<"a">>), Name(<<>>, <<"b">>), Name(<<"u">>, <<"a">>)}

Texts == {<<"x">>, <<"y">>}

InitDecode ==
    /\ D \in {NilMap, MapOf(<<"a">> :> StringOf(<<"x">>))}
    /\ settings = New(<<>>)
    /\ op = "New"
    /\ args = None
    /\ flat = None
    /\ ret = None
    /\ run = None

\* The call of UnmarshalXML, up to its loop.
CallUnmarshalXML ==
    \E start \in Starts :
        /\ op = "New"
        /\ op' = "UnmarshalXML.Token"
        /\ args' = [start |-> start, err |-> NoErr]
        /\ run' = [read |-> <<>>] @@ declared(start)
        /\ UNCHANGED <<D, settings, flat, ret>>

\* dec.Token gives a token, which a decoder does while an element is open.
TokenStartElement ==
    \E name \in ElementNames :
        /\ op = "UnmarshalXML.Token"
        /\ Len(run.read) < MaxTokens
        /\ Depth(run.read) > 0
        /\ run' = [onToken(run, StartElement(name, <<>>)) EXCEPT !.read = Append(@, StartElement(name, <<>>))]
        /\ UNCHANGED <<D, settings, op, args, flat, ret>>

TokenCharData ==
    \E text \in Texts :
        /\ op = "UnmarshalXML.Token"
        /\ Len(run.read) < MaxTokens
        /\ Depth(run.read) > 0
        /\ run' = [onToken(run, CharData(text)) EXCEPT !.read = Append(@, CharData(text))]
        /\ UNCHANGED <<D, settings, op, args, flat, ret>>

TokenEndElement ==
    /\ op = "UnmarshalXML.Token"
    /\ Len(run.read) < MaxTokens
    /\ Depth(run.read) > 0
    /\ run' = [onToken(run, EndElement) EXCEPT !.read = Append(@, EndElement)]
    /\ UNCHANGED <<D, settings, op, args, flat, ret>>

TokenComment ==
    /\ op = "UnmarshalXML.Token"
    /\ Len(run.read) < MaxTokens
    /\ Depth(run.read) > 0
    /\ run' = [onToken(run, Comment) EXCEPT !.read = Append(@, Comment)]
    /\ UNCHANGED <<D, settings, op, args, flat, ret>>

\* dec.Token gives an error, io.EOF once the element is closed: the loop is
\* left and UnmarshalXML returns.
TokenError ==
    /\ op = "UnmarshalXML.Token"
    /\ \E r \in unmarshalled(run) :
        /\ op' = "UnmarshalXML"
        /\ args' = [args EXCEPT !.err = IF Depth(run.read) = 0 THEN EOF ELSE SyntaxError]
        /\ D' = r.D
        /\ ret' = [err |-> r.err]
        /\ UNCHANGED <<settings, flat, run>>

\* A []byte holding the JSON text of the value json, and the nil []byte.
Bytes(json) == [t |-> "[]byte", json |-> json, isnil |-> FALSE]

NilBytes == [t |-> "[]byte", json |-> Null, isnil |-> TRUE]

\* A text that is no JSON.
Malformed == [t |-> "malformed"]

JSONSyntaxError == [kind |-> "json.SyntaxError", exp |-> "", got |-> ""]

UnmarshalTypeError(got) ==
    [kind |-> "json.UnmarshalTypeError", exp |-> "map[string]interface {}", got |-> got]

\* What UnmarshalJSON leaves in d.D and returns.  Decode(&d.D) sets the map to
\* nil on null, and on an object allocates a map when d.D is nil and else
\* stores the members in the map d.D holds, whose other entries are kept.
UnmarshalJSON(d, b) ==
    IF b.isnil THEN [D |-> NilMap, err |-> NoErr]
    ELSE CASE b.json = Malformed -> [D |-> d, err |-> JSONSyntaxError]
           [] b.json = Null -> [D |-> NilMap, err |-> NoErr]
           [] IsMap(b.json) -> [D |-> MapOf(b.json.v @@ d.v), err |-> NoErr]
           [] OTHER -> [D |-> d, err |-> UnmarshalTypeError(b.json.t)]

Payloads ==
    {NilBytes} \cup
    {Bytes(j) : j \in {Malformed, Null, StringOf(<<"x">>), MapOf(EmptyFn),
                       MapOf(<<"a">> :> NumberOf(<<"1">>)),
                       MapOf(<<"b">> :> MapOf(<<"a">> :> StringOf(<<"y">>)))}}

CallUnmarshalJSON ==
    \E b \in Payloads :
        /\ op = "New"
        /\ op' = "UnmarshalJSON"
        /\ args' = [b |-> b]
        /\ D' = UnmarshalJSON(D, b).D
        /\ ret' = [err |-> UnmarshalJSON(D, b).err]
        /\ UNCHANGED <<settings, flat, run>>

NextDecode ==
    \/ CallUnmarshalXML
    \/ TokenStartElement
    \/ TokenCharData
    \/ TokenEndElement
    \/ TokenComment
    \/ TokenError
    \/ CallUnmarshalJSON

SpecDecode == InitDecode /\ [][NextDecode]_vars

(***************************************************************************)
(* Properties of UnmarshalXML                                              *)
(***************************************************************************)

Decoding == op \in {"UnmarshalXML.Token", "UnmarshalXML"}

\* The indices of S in increasing order.
RECURSIVE Ascending(_)
Ascending(S) ==
    IF S = {} THEN <<>>
    ELSE LET i == CHOOSE j \in S : \A k \in S : j <= k IN <<i>> \o Ascending(S \ {i})

\* The start elements among the first j tokens of read that are still open
\* after them: the depth has not come back under theirs.
OpenAt(read, j) ==
    Ascending({k \in 1..j : /\ read[k].t = "StartElement"
                            /\ \A m \in k..j : Depth(SubSeq(read, 1, m)) >= Depth(SubSeq(read, 1, k))})

\* The prefix a namespace declaration xmlns:alias="uri" of the start element
\* binds to uri.
Aliases(start, uri) ==
    {start.Attr[i].Name.Local :
        i \in {j \in 1..Len(start.Attr) : /\ start.Attr[j].Name.Space = <<"x", "m", "l", "n", "s">>
                                          /\ start.Attr[j].Value = uri}}

\* The path segment of an element: alias:local when a declaration of the
\* start element binds its namespace to alias, local otherwise.
Segment(start, name) ==
    IF Aliases(start, name.Space) # {}
    THEN (CHOOSE a \in Aliases(start, name.Space) : TRUE) \o xmlNSSep \o name.Local
    ELSE name.Local

\* C15 as stated: when the decoder fails on a malformed stream, UnmarshalXML
\* returns the error of the decoder, unchanged.
C15_TokenizerErrorReturned ==
    op = "UnmarshalXML" /\ args.err = SyntaxError => ret.err = SyntaxError

\* C16 as stated: the path segments of the elements open are alias:local for
\* an element whose namespace a declaration binds to alias, and local alone
\* for an element with no namespace or a namespace not declared.
C16_SegmentsUseDeclaredAliases ==
    Decoding /\ Depth(run.read) > 0 =>
        LET open == OpenAt(run.read, Len(run.read))
        IN  run.tree = <<Segment(args.start, args.start.Name)>> \o
                       [i \in 1..Len(open) |-> Segment(args.start, run.read[open[i]].Name)]

\* C17 as stated: after an unmarshal the document holds the payload only,
\* whatever it held before.  UnmarshalJSON of no payload leaves it nil, so
\* that Flatten returns nil; UnmarshalJSON of an object leaves the members of
\* the object; UnmarshalXML leaves entries recorded from the token stream only.
C17_DocumentReflectsOnlyPayload ==
    /\ op = "UnmarshalJSON" /\ ret.err = NoErr =>
          IF args.b.isnil \/ args.b.json = Null
          THEN D = NilMap /\ \A o \in Flatten(D, {}) : o.ret = NilMap
          ELSE D = args.b.json
    /\ op = "UnmarshalXML" =>
          /\ ~D.isnil
          /\ \A p \in LeafPaths(D.v) :
                \E k \in DOMAIN run.temp :
                    Tail(Split(k, xmlLevelSep)) = p /\ run.temp[k] = ValueAt(D.v, p)

\* The end elements among the tokens read.
Ends(read) == {i \in 1..Len(read) : read[i].t = "EndElement"}

\* The index of the start element that the end element read[i] closes, 0 for
\* the start element handed to UnmarshalXML.
StartOf(read, i) ==
    LET open == OpenAt(read, i - 1)
    IN  IF open = <<>> THEN 0 ELSE open[Len(open)]

\* No start element was read between the start of the element closed by
\* read[i] and read[i].
NoNestedStart(read, i) ==
    \A k \in (StartOf(read, i) + 1)..(i - 1) : read[k].t # "StartElement"

HasCharData(read, i) ==
    \E k \in (StartOf(read, i) + 1)..(i - 1) : read[k].t = "CharData"

\* The character data read since the element closed by read[i] was opened.
RECURSIVE TextBetween(_, _, _)
TextBetween(read, j, i) ==
    IF j >= i THEN <<>>
    ELSE (IF read[j].t = "CharData" THEN read[j].v ELSE <<>>) \o TextBetween(read, j + 1, i)

OwnText(read, i) == TextBetween(read, StartOf(read, i) + 1, i)

\* The key of the element closed by read[i]: the path segments from the root
\* down to it, joined.
PathOf(read, i) ==
    LET open == OpenAt(read, i - 1)
    IN  Join(<<xmlName(args.start.Name, run.attr)>> \o
             [n \in 1..Len(open) |-> xmlName(read[open[n]].Name, run.attr)],
             <<xmlLevelSep>>)

\* C18 as stated: the value recorded at the end of a leaf element is the
\* character data read since the element was opened, and the empty text when
\* there was none: nothing read before its start element.
C18_LeafRecordsOwnText ==
    Decoding /\ Len(run.read) > 0 /\ run.read[Len(run.read)].t = "EndElement" =>
        LET i == Len(run.read)
        IN  StartOf(run.read, i) # 0 /\ NoNestedStart(run.read, i) =>
                /\ PathOf(run.read, i) \in DOMAIN run.temp
                /\ run.temp[PathOf(run.read, i)] = StringOf(OwnText(run.read, i))

\* C19 as stated: the entries recorded are those of the elements closed that
\* had character data and no nested start element, each under the names from
\* the root down to it, joined.
C19_RecordedIffTextAndNoChild ==
    Decoding =>
        DOMAIN run.temp =
            {PathOf(run.read, i) :
                i \in {e \in Ends(run.read) : HasCharData(run.read, e) /\ NoNestedStart(run.read, e)}}

\* C19: the entries recorded are those of the elements closed, the root left
\* out, that had no nested start element, with character data or without,
\* each under the names from the root down to it, joined.
C19_RecordedIffNoChild ==
    Decoding =>
        DOMAIN run.temp =
            {PathOf(run.read, i) :
                i \in {e \in Ends(run.read) : StartOf(run.read, e) # 0 /\ NoNestedStart(run.read, e)}}

\* An element with character data and a child was closed and not recorded,
\* and an element two levels under the root, closed with no character data,
\* was recorded.
C19_Witness ==
    /\ op = "UnmarshalXML.Token"
    /\ \E i \in Ends(run.read) :
          /\ StartOf(run.read, i) # 0
          /\ ~NoNestedStart(run.read, i)
          /\ HasCharData(run.read, i)
          /\ PathOf(run.read, i) \notin DOMAIN run.temp
    /\ \E i \in Ends(run.read) :
          /\ NoNestedStart(run.read, i)
          /\ ~HasCharData(run.read, i)
          /\ Len(Split(PathOf(run.read, i), xmlLevelSep)) = 3
          /\ PathOf(run.read, i) \in DOMAIN run.temp

\* The path p is a proper prefix of the path q.
StrictPathPrefix(p, q) == Len(p) < Len(q) /\ SubSeq(q, 1, Len(p)) = p

\* C20 as stated: no entry recorded has a path that is a proper prefix of the
\* path of another.
C20_NoEntryAbovePath ==
    Decoding =>
        \A k1, k2 \in DOMAIN run.temp :
            ~StrictPathPrefix(Split(k1, xmlLevelSep), Split(k2, xmlLevelSep))

(***************************************************************************)
(* MarshalXML, marshallXML and fmtString                                   *)
(***************************************************************************)

DigitChars == <<"0", "1", "2", "3", "4", "5", "6", "7", "8", "9">>

\* The decimal text of a natural number
RECURSIVE Itoa(_)
Itoa(n) == IF n < 10 THEN <<DigitChars[n + 1]>> ELSE Itoa(n \div 10) \o <<DigitChars[(n % 10) + 1]>>

\* strconv.FormatBool
FormatBool(b) == IF b THEN <<"t", "r", "u", "e">> ELSE <<"f", "a", "l", "s", "e">>

\* strconv.FormatFloat(d, 'g', -1, 64) of a float64 counted in tenths, below
\* the size where 'g' turns to an exponent.
FormatFloat(n) ==
    LET abs == IF n < 0 THEN 0 - n ELSE n
    IN  (IF n < 0 THEN <<"-">> ELSE <<>>) \o Itoa(abs \div 10) \o
        (IF abs % 10 = 0 THEN <<>> ELSE <<".", DigitChars[(abs % 10) + 1]>>)

RECURSIVE fmtString(_, _)

\* fmtString with the elements of an array put end to end, no separator.
fmtStringUnseparated(x, xmlArraySep) ==
    CASE x.t = "[]interface {}" ->
            Join([k \in 1..Len(x.v) |-> fmtString(x.v[k], xmlArraySep)], <<>>)
      [] x.t = "bool" -> FormatBool(x.v)
      [] x.t = "float64" -> FormatFloat(x.v)
      [] x.t = "string" -> x.v
      [] x.t = "json.Number" -> x.v
      [] OTHER -> <<>>

fmtString(x, xmlArraySep) ==
    CASE x.t = "[]interface {}" ->
            Join([k \in 1..Len(x.v) |-> fmtString(x.v[k], xmlArraySep)], xmlArraySep)
      [] x.t = "bool" -> FormatBool(x.v)
      [] x.t = "float64" -> FormatFloat(x.v)
      [] x.t = "string" -> x.v
      [] x.t = "json.Number" -> x.v
      [] OTHER -> <<>>

\* enc.Encode(charData{XMLName: xml.Name{Local: k}, Value: text}): the tokens
\* it writes.
encodeCharData(k, text) ==
    <<StartElement(Name(<<>>, k), <<>>), CharData(text), EndElement>>

\* The texts marshallXML(m, enc, start, arraySep) can write, as tokens: the
\* start element, the entries of m in any order, the end element.  Keys are
\* taken not empty, so that the encoder never fails.
RECURSIVE marshallXML(_, _, _)
RECURSIVE marshalRange(_, _, _)
marshalRange(m, todo, arraySep) ==
    IF todo = {} THEN {<<>>}
    ELSE UNION {LET first == IF IsMap(m[k])
                             THEN marshallXML(m[k].v, StartElement(Name(<<>>, k), <<>>), arraySep)
                             ELSE {encodeCharData(k, fmtString(m[k], arraySep))}
                IN  {f \o rest : f \in first, rest \in marshalRange(m, todo \ {k}, arraySep)}
                : k \in todo}

marshallXML(m, start, arraySep) ==
    {<<start>> \o body \o <<EndElement>> : body \in marshalRange(m, DOMAIN m, arraySep)}

\* MarshalXML writing the root element of a document with no entry.
MarshalXMLAlwaysRoot(d, s) ==
    {[out |-> out, err |-> NoErr] :
        out \in marshallXML(d.v, StartElement(Name(s.xmlns, s.xmlName), s.xmlAttributes),
                            s.xmlArraySep)}

\* What MarshalXML can write, as tokens, and return, for the document d with
\* the settings s.
MarshalXML(d, s) ==
    IF MapLen(d) = 0 THEN {[out |-> <<>>, err |-> NoErr]}
    ELSE {[out |-> out, err |-> NoErr] :
            out \in marshallXML(d.v, StartElement(Name(s.xmlns, s.xmlName), s.xmlAttributes),
                                s.xmlArraySep)}

(***************************************************************************)
(* The text written by an encoder, read by a decoder                       *)
(***************************************************************************)

\* The name a decoder reads from the written name s: prefix and local part
\* when a colon stands inside s.
SplitName(s) ==
    LET at == {i \in 1..Len(s) : s[i] = ":"}
        i  == IF at = {} THEN 0 ELSE CHOOSE j \in at : \A k \in at : j <= k
    IN  IF i < 2 \/ i > Len(s) - 1 THEN Name(<<>>, s)
        ELSE Name(SubSeq(s, 1, i - 1), SubSeq(s, i + 1, Len(s)))

\* The attributes a decoder reads on the root element written for the start
\* element root: the declaration xmlns="space" that the encoder adds for a
\* name with a namespace, then the attributes given, their names split.
writtenAttrs(root) ==
    (IF root.Name.Space = <<>> THEN <<>>
     ELSE <<Attr(Name(<<>>, <<"x", "m", "l", "n", "s">>), root.Name.Space)>>) \o
    [i \in 1..Len(root.Attr) |-> Attr(SplitName(root.Attr[i].Name.Local), root.Attr[i].Value)]

\* The name a decoder gives an element written as local under the root
\* element written for root: a prefix declared on the root turns into its
\* namespace, and a name with no prefix is in the namespace of the root.
readName(root, local) ==
    LET n == SplitName(local)
        decl == {i \in 1..Len(writtenAttrs(root)) :
                    /\ writtenAttrs(root)[i].Name.Space = <<"x", "m", "l", "n", "s">>
                    /\ writtenAttrs(root)[i].Name.Local = n.Space}
    IN  IF n.Space = <<>> THEN Name(root.Name.Space, n.Local)
        ELSE IF decl = {} THEN n
        ELSE Name(writtenAttrs(root)[CHOOSE i \in decl : \A j \in decl : i >= j].Value, n.Local)

\* What a decoder gives for the text an encoder wrote from the tokens out, the
\* first of them the root element: the start element handed to UnmarshalXML
\* and the tokens read after it.  Character data of no character is no token.
RECURSIVE readTokens(_, _)
readTokens(root, out) ==
    IF out = <<>> THEN <<>>
    ELSE LET token == Head(out)
         IN  (CASE token.t = "StartElement" ->
                      <<StartElement(readName(root, token.Name.Local), <<>>)>>
                [] token.t = "CharData" /\ token.v = <<>> -> <<>>
                [] OTHER -> <<token>>) \o readTokens(root, Tail(out))

Decoder(out) ==
    [start |-> StartElement(readName(out[1], out[1].Name.Local), writtenAttrs(out[1])),
     tokens |-> readTokens(out[1], Tail(out))]

(***************************************************************************)
(* MarshalXML, then UnmarshalXML of what it wrote, then Flatten            *)
(***************************************************************************)

MaxElements == 3

XMLLeaves ==
    {Null, StringOf(<<>>), StringOf(<<"x">>), BoolOf(TRUE), FloatOf(15), NumberOf(<<"1">>),
     ArrayOf(<<StringOf(<<"1">>), FloatOf(-20)>>)}

SettingsUsed ==
    {New(<<>>),
     New(<<XMLName(<<"x">>), XMLNS(<<"u">>)>>),
     New(<<XMLArray(<<",">>), XMLNS(<<"u">>),
           XMLAttributes(<<Attr(Name(<<>>, <<"x", "m", "l", "n", "s", ":", "t">>), <<"u">>)>>)>>)}

InitEncode ==
    /\ D \in {NilMap} \cup {MapOf(m) : m \in DocsUpTo(Names, XMLLeaves, MaxElements)}
    /\ settings \in SettingsUsed
    /\ op = "New"
    /\ args = None
    /\ flat = None
    /\ ret = None
    /\ run = None

\* xml.Marshal(d), or d.XMLEncode(w)
CallMarshalXML ==
    /\ op = "New"
    /\ \E r \in MarshalXML(D, settings) :
        /\ op' = "MarshalXML"
        /\ args' = None
        /\ ret' = r
        /\ UNCHANGED <<D, settings, flat, run>>

\* xml.Unmarshal(b, &d) into a new document, b being the text written: with no
\* text, xml.Unmarshal fails before it calls UnmarshalXML.
CallUnmarshalXMLOfOutput ==
    /\ op = "MarshalXML"
    /\ op' = "UnmarshalXML"
    /\ args' = [from |-> D, out |-> ret.out]
    /\ IF ret.out = <<>>
       THEN D' = NilMap /\ ret' = [err |-> EOF]
       ELSE \E r \in UnmarshalXML(Decoder(ret.out).start, Decoder(ret.out).tokens) :
                D' = r.D /\ ret' = [err |-> r.err]
    /\ UNCHANGED <<settings, flat, run>>

\* Flatten() of the document decoded
CallFlattenOfDecoded ==
    /\ op = "UnmarshalXML"
    /\ ret.err = NoErr
    /\ \E o \in Flatten(D, {}) :
        /\ op' = "Flatten"
        /\ flat' = o.flat
        /\ ret' = o.ret
        /\ UNCHANGED <<D, settings, args, run>>

NextEncode ==
    \/ CallMarshalXML
    \/ CallUnmarshalXMLOfOutput
    \/ CallFlattenOfDecoded

SpecEncode == InitEncode /\ [][NextEncode]_vars

(***************************************************************************)
(* Properties of MarshalXML and of the round trip                          *)
(***************************************************************************)

\* The values of m, at any depth, are scalars and maps: no array.
RECURSIVE NoArray(_)
NoArray(m) ==
    \A k \in DOMAIN m : IF IsMap(m[k]) THEN NoArray(m[k].v) ELSE m[k].t # "[]interface {}"

\* C13 as stated: for a document of scalars and nested maps written with the
\* default settings, Flatten of the document decoded from the text written is
\* a result of Flatten of the document itself.
C13_XMLRoundTripKeepsFlatten ==
    op = "Flatten" /\ settings = New(<<>>) /\ NoArray(args.from.v) =>
        ret \in {o.ret : o \in Flatten(args.from, {})}

\* C14: MarshalXML of a document that is nil or has no entry writes nothing,
\* no root element either, and returns no error, whatever the name, the
\* namespace and the attributes set.
C14_EmptyDocumentWritesNothing ==
    op = "MarshalXML" /\ MapLen(D) = 0 => ret = [out |-> <<>>, err |-> NoErr]

\* MarshalXML has written nothing for an empty map that is not nil, with a
\* namespace and attributes set.
C14_Witness ==
    /\ op = "MarshalXML"
    /\ D = MapOf(EmptyFn)
    /\ settings.xmlns # <<>>
    /\ settings.xmlAttributes # <<>>
    /\ ret = [out |-> <<>>, err |-> NoErr]

(***************************************************************************)
(* expanded, applied to maps of path entries                               *)
(***************************************************************************)

MaxPaths == 3

MaxSegments == 3

PathSegments == {<<"a">>, <<"b">>}

\* The keys of the maps given to expanded: the paths of at most MaxSegments
\* segments under the root d, the root alone among them, and a path under
\* another root.
PathKeys ==
    {Join(<<(<<"d">>)>> \o p, <<xmlLevelSep>>) : p \in SeqsUpTo(PathSegments, MaxSegments - 1)}
        \cup {Join(<< <<"x">>, <<"a">> >>, <<xmlLevelSep>>)}

\* The maps of path entries: every value is the text of its own key.
PathMaps == {[k \in keys |-> StringOf(k)] : keys \in SubsetsUpTo(PathKeys, MaxPaths)}

InitExpand ==
    /\ D = NilMap
    /\ op = "init"
    /\ args \in {[in |-> m] : m \in PathMaps}
    /\ flat = None
    /\ ret = None
    /\ settings = New(<<>>)
    /\ run = None

\* expanded(in, out) on an empty map out
CallExpanded ==
    /\ op = "init"
    /\ \E r \in expanded(args.in) :
        /\ op' = "expanded"
        /\ ret' = r
        /\ UNCHANGED <<D, settings, args, flat, run>>

\* Lookup in the map expanded has filled
CallLookupExpanded ==
    /\ op = "expanded"
    /\ ret.ok
    /\ \E k \in DOMAIN args.in :
        /\ op' = "expanded.Lookup"
        /\ args' = [in |-> args.in, keys |-> Tail(Split(k, xmlLevelSep))]
        /\ D' = MapOf(ret.m)
        /\ ret' = Lookup(MapOf(ret.m), Tail(Split(k, xmlLevelSep)))
        /\ UNCHANGED <<settings, flat, run>>

NextExpand == CallExpanded \/ CallLookupExpanded

SpecExpand == InitExpand /\ [][NextExpand]_vars

\* The segments of the key k, and those after the first.
Segments(k) == Split(k, xmlLevelSep)

Below(k) == Tail(Segments(k))

\* No path of in is a proper prefix of another.
PrefixFree(in) ==
    \A k1, k2 \in DOMAIN in : ~StrictPathPrefix(Segments(k1), Segments(k2))

\* Every path of in has a segment after the first, and no two entries have
\* segments after the first of which the ones begin the others.
PrefixFreeBelow(in) ==
    /\ \A k \in DOMAIN in : Len(Segments(k)) >= 2
    /\ \A k1, k2 \in DOMAIN in : k1 # k2 => ~IsPathPrefix(Below(k1), Below(k2))

\* The document m holds the entries of in under their segments after the
\* first, and no other leaf.
Expands(in, m) ==
    /\ \A k \in DOMAIN in : Lookup(MapOf(m), Below(k)) = [v |-> in[k], err |-> NoErr]
    /\ \A k \in DOMAIN in : \A i \in 1..(Len(Below(k)) - 1) :
          IsMap(Lookup(MapOf(m), SubSeq(Below(k), 1, i)).v)
    /\ LeafPaths(m) = {Below(k) : k \in DOMAIN in}

MaxArrayLen == 2

\* An int64, a type the decoders never produce.
Int64Of(n) == [t |-> "int64", v |-> n]

FormatFloats == {0, 5, 15, -20, -25}

FormatScalars ==
    {Null, BoolOf(TRUE), BoolOf(FALSE), NumberOf(<<"1">>), NumberOf(<<"-", "4", "2">>),
     StringOf(<<>>), StringOf(<<"x">>), Int64Of(-42), MapOf(<<"a">> :> StringOf(<<"x">>))}
        \cup {FloatOf(n) : n \in FormatFloats}

\* Arrays of strings and floating numbers, to be elements of other arrays.
InnerArrays == {ArrayOf(a) : a \in SeqsUpTo({StringOf(<<"x">>), FloatOf(-20)}, MaxArrayLen)}

ArrayItems ==
    {Null, BoolOf(TRUE), FloatOf(15), NumberOf(<<"1">>), StringOf(<<>>), StringOf(<<"x">>)}
        \cup InnerArrays

FormatValues == FormatScalars \cup {ArrayOf(a) : a \in SeqsUpTo(ArrayItems, MaxArrayLen)}

Separators == {<<>>, DefaultXMLArraySep, <<",">>}

InitFormat ==
    /\ D = NilMap
    /\ op = "init"
    /\ args \in {[in |-> x, sep |-> sep] : x \in FormatValues, sep \in Separators}
    /\ flat = None
    /\ ret = None
    /\ settings = New(<<>>)
    /\ run = None

\* fmtString(in, sep)
CallFmtString ==
    /\ op = "init"
    /\ op' = "fmtString"
    /\ ret' = fmtString(args.in, args.sep)
    /\ UNCHANGED <<D, settings, args, flat, run>>

\* strconv.ParseFloat of the text fmtString returned
CallParseFloat ==
    /\ op = "fmtString"
    /\ op' = "fmtString.ParseFloat"
    /\ ret' = ParseFloat(ret)
    /\ UNCHANGED <<D, settings, args, flat, run>>

NextFormat == CallFmtString \/ CallParseFloat

SpecFormat == InitFormat /\ [][NextFormat]_vars

\* The decimal texts of at most four characters.
DecimalTexts == SeqsUpTo({"0", "1", "2", "5", ".", "-"}, 4)

\* The text s writes the number of n tenths, with a digit first or after the
\* sign.
Writes(s, n) ==
    /\ ParseFloat(s) = [v |-> n, err |-> NoErr]
    /\ IsDigit(IF Head(s) = "-" THEN s[2] ELSE s[1])

\* The shortest of the decimal texts that write a floating number.
ShortestText ==
    [n \in FormatFloats |->
        CHOOSE s \in DecimalTexts :
            /\ s # <<>> /\ s # <<"-">>
            /\ Writes(s, n)
            /\ \A t \in DecimalTexts :
                  t # <<>> /\ t # <<"-">> /\ Len(t) < Len(s) => ~Writes(t, n)]

\* The table of conversions; floats tells whether it has the row of the
\* floating numbers, which otherwise are among the other values.
RECURSIVE Table(_, _, _)
Table(x, sep, floats) ==
    IF x.t = "bool" THEN (IF x.v THEN <<"t", "r", "u", "e">> ELSE <<"f", "a", "l", "s", "e">>)
    ELSE IF x.t = "json.Number" THEN x.v
    ELSE IF x.t = "string" THEN x.v
    ELSE IF x.t = "[]interface {}"
         THEN Join([k \in 1..Len(x.v) |-> Table(x.v[k], sep, floats)], sep)
    ELSE IF floats /\ x.t = "float64" THEN ShortestText[x.v]
    ELSE <<>>

\* C22 as stated: fmtString gives true or false for a boolean, its own text
\* for a textual number, itself for a string, its elements formatted by the
\* same rule and joined by sep, in order, for an array, and the empty string
\* for any other value.
C22_FmtStringFollowsTable ==
    op = "fmtString" => ret = Table(args.in, args.sep, FALSE)

\* C22 amended: the same table with one more row: a floating number gives
\* the shortest decimal text that writes it.
C22_FmtStringFollowsTableWithFloats ==
    op = "fmtString" => ret = Table(args.in, args.sep, TRUE)

\* fmtString has formatted an array that holds a boolean and an array of a
\* string and a floating number.
C22_Witness ==
    /\ op = "fmtString"
    /\ args.in = ArrayOf(<<BoolOf(TRUE), ArrayOf(<<StringOf(<<"x">>), FloatOf(-20)>>)>>)
    /\ args.sep = DefaultXMLArraySep
    /\ ret = <<"t", "r", "u", "e", "|", "x", "|", "-", "2">>

(***************************************************************************)
(* Calls made one after another on one instance                            *)
(***************************************************************************)

\* The JSON value json.Marshal writes for x: a float64 is written as a
\* number, a nil map as null.
RECURSIVE jsonOf(_)
jsonOf(x) ==
    CASE x.t = "float64" -> NumberOf(FormatFloat(x.v))
      [] x.t = "[]interface {}" -> ArrayOf([k \in 1..Len(x.v) |-> jsonOf(x.v[k])])
      [] IsMap(x) -> IF x.isnil THEN Null ELSE MapOf([k \in DOMAIN x.v |-> jsonOf(x.v[k])])
      [] OTHER -> x

\* What MarshalJSON returns; JSONEncode writes the same value.
MarshalJSON(d) == [out |-> Bytes(jsonOf(d)), err |-> NoErr]

MaxCalls == 2

FrameDocs ==
    {NilMap,
     MapOf(<<"a">> :> StringOf(<<"1">>)),
     MapOf((<<"a">> :> MapOf(<<"b">> :> BoolOf(TRUE))) @@
           (<<"b">> :> ArrayOf(<<StringOf(<<"1">>), StringOf(<<"t">>)>>))),
     MapOf((<<"a">> :> FloatOf(15)) @@ (<<"b">> :> StringOf(<<"1", "5">>))),
     MapOf((<<"a", ":", "b">> :> StringOf(<<"x">>)) @@
           (<<"a">> :> MapOf(<<"b">> :> StringOf(<<"t">>))))}

FrameSettings == {New(<<>>), New(<<XMLName(<<"x">>), XMLNS(<<"u">>), XMLArray(<<",">>)>>)}

FrameIgnoreLists == {{}, {<<(<<"a">>)>>}}

FramePayloads ==
    {NilBytes, Bytes(Malformed), Bytes(MapOf(<<"b">> :> NumberOf(<<"1">>)))}

\* The start element and the tokens of <d><b>t</b></d> and of
\* <d><a>x</a><a><b>t</b></a></d>.
FrameStreams ==
    {[start |-> StartElement(Name(<<>>, <<"d">>), <<>>),
      tokens |-> <<StartElement(Name(<<>>, <<"b">>), <<>>), CharData(<<"t">>), EndElement,
                   EndElement>>],
     [start |-> StartElement(Name(<<>>, <<"d">>), <<>>),
      tokens |-> <<StartElement(Name(<<>>, <<"a">>), <<>>), CharData(<<"x">>), EndElement,
                   StartElement(Name(<<>>, <<"a">>), <<>>),
                   StartElement(Name(<<>>, <<"b">>), <<>>), CharData(<<"t">>), EndElement,
                   EndElement, EndElement>>]}

ReadOnlyOps ==
    {"Flatten", "Lookup", "Bool", "Float64", "Int64", "String", "Strings", "Time", "Uint64",
     "MarshalXML", "MarshalJSON"}

UnmarshalOps == {"UnmarshalJSON", "UnmarshalXML"}

\* The instance New has made, with the number of calls made on it since, the
\* operation of the call before, and whether every call so far was read-only.
InitFrame ==
    /\ D \in FrameDocs
    /\ settings \in FrameSettings
    /\ op = "New"
    /\ args = None
    /\ flat = None
    /\ ret = None
    /\ run = [new |-> [D |-> D, settings |-> settings], calls |-> 0, before |-> "New",
              readonly |-> TRUE]

\* Flatten that takes out of the document the entries it lifts.
FlattenOnConsuming ==
    /\ run.calls < MaxCalls
    /\ \E ignoredKeys \in FrameIgnoreLists : \E o \in Flatten(D, ignoredKeys) :
           /\ op' = "Flatten"
           /\ args' = [ignoredKeys |-> ignoredKeys]
           /\ flat' = o.flat
           /\ ret' = o.ret
    /\ run' = [run EXCEPT !.calls = @ + 1, !.before = op]
    /\ D' = MapOf(EmptyFn)
    /\ UNCHANGED settings

FlattenOn ==
    /\ run.calls < MaxCalls
    /\ \E ignoredKeys \in FrameIgnoreLists : \E o \in Flatten(D, ignoredKeys) :
           /\ op' = "Flatten"
           /\ args' = [ignoredKeys |-> ignoredKeys]
           /\ flat' = o.flat
           /\ ret' = o.ret
    /\ run' = [run EXCEPT !.calls = @ + 1, !.before = op]
    /\ UNCHANGED <<D, settings>>

LookupOn ==
    /\ run.calls < MaxCalls
    /\ \E keys \in KeyPaths :
           /\ op' = "Lookup"
           /\ args' = [keys |-> keys]
           /\ ret' = Lookup(D, keys)
    /\ run' = [run EXCEPT !.calls = @ + 1, !.before = op]
    /\ UNCHANGED <<D, settings, flat>>

BoolOn ==
    /\ run.calls < MaxCalls
    /\ \E keys \in KeyPaths :
           /\ op' = "Bool"
           /\ args' = [keys |-> keys]
           /\ ret' = Bool(D, keys)
    /\ run' = [run EXCEPT !.calls = @ + 1, !.before = op]
    /\ UNCHANGED <<D, settings, flat>>

Float64On ==
    /\ run.calls < MaxCalls
    /\ \E keys \in KeyPaths :
           /\ op' = "Float64"
           /\ args' = [keys |-> keys]
           /\ ret' = Float64(D, keys)
    /\ run' = [run EXCEPT !.calls = @ + 1, !.before = op]
    /\ UNCHANGED <<D, settings, flat>>

Int64On ==
    /\ run.calls < MaxCalls
    /\ \E keys \in KeyPaths :
           /\ op' = "Int64"
           /\ args' = [keys |-> keys]
           /\ ret' = Int64(D, keys)
    /\ run' = [run EXCEPT !.calls = @ + 1, !.before = op]
    /\ UNCHANGED <<D, settings, flat>>

StringOn ==
    /\ run.calls < MaxCalls
    /\ \E keys \in KeyPaths :
           /\ op' = "String"
           /\ args' = [keys |-> keys]
           /\ ret' = String(D, keys)
    /\ run' = [run EXCEPT !.calls = @ + 1, !.before = op]
    /\ UNCHANGED <<D, settings, flat>>

StringsOn ==
    /\ run.calls < MaxCalls
    /\ \E keys \in KeyPaths :
           /\ op' = "Strings"
           /\ args' = [keys |-> keys]
           /\ ret' = Strings(D, keys)
    /\ run' = [run EXCEPT !.calls = @ + 1, !.before = op]
    /\ UNCHANGED <<D, settings, flat>>

TimeOn ==
    /\ run.calls < MaxCalls
    /\ \E keys \in KeyPaths : \E layout \in Layouts :
           /\ op' = "Time"
           /\ args' = [keys |-> keys, layout |-> layout]
           /\ ret' = Time(D, layout, keys)
    /\ run' = [run EXCEPT !.calls = @ + 1, !.before = op]
    /\ UNCHANGED <<D, settings, flat>>

Uint64On ==
    /\ run.calls < MaxCalls
    /\ \E keys \in KeyPaths : \E r \in Uint64(D, keys) :
           /\ op' = "Uint64"
           /\ args' = [keys |-> keys]
           /\ ret' = r
    /\ run' = [run EXCEPT !.calls = @ + 1, !.before = op]
    /\ UNCHANGED <<D, settings, flat>>

\* xml.Marshal(d), or d.XMLEncode(w)
MarshalXMLOn ==
    /\ run.calls < MaxCalls
    /\ \E r \in MarshalXML(D, settings) :
           /\ op' = "MarshalXML"
           /\ args' = None
           /\ ret' = r
    /\ run' = [run EXCEPT !.calls = @ + 1, !.before = op]
    /\ UNCHANGED <<D, settings, flat>>

\* json.Marshal(d), or d.JSONEncode(w)
MarshalJSONOn ==
    /\ run.calls < MaxCalls
    /\ op' = "MarshalJSON"
    /\ args' = None
    /\ ret' = MarshalJSON(D)
    /\ run' = [run EXCEPT !.calls = @ + 1, !.before = op]
    /\ UNCHANGED <<D, settings, flat>>

UnmarshalJSONOn ==
    /\ run.calls < MaxCalls
    /\ \E b \in FramePayloads :
           /\ op' = "UnmarshalJSON"
           /\ args' = [b |-> b]
           /\ D' = UnmarshalJSON(D, b).D
           /\ ret' = [err |-> UnmarshalJSON(D, b).err]
    /\ run' = [run EXCEPT !.calls = @ + 1, !.before = op, !.readonly = FALSE]
    /\ UNCHANGED <<settings, flat>>

\* The whole of UnmarshalXML, on a decoder that gives the tokens of a stream.
UnmarshalXMLOn ==
    /\ run.calls < MaxCalls
    /\ \E x \in FrameStreams : \E r \in UnmarshalXML(x.start, x.tokens) :
           /\ op' = "UnmarshalXML"
           /\ args' = x
           /\ D' = r.D
           /\ ret' = [err |-> r.err]
    /\ run' = [run EXCEPT !.calls = @ + 1, !.before = op, !.readonly = FALSE]
    /\ UNCHANGED <<settings, flat>>

NextFrame ==
    \/ FlattenOn
    \/ LookupOn
    \/ BoolOn
    \/ Float64On
    \/ Int64On
    \/ StringOn
    \/ StringsOn
    \/ TimeOn
    \/ Uint64On
    \/ MarshalXMLOn
    \/ MarshalJSONOn
    \/ UnmarshalJSONOn
    \/ UnmarshalXMLOn

SpecFrame == InitFrame /\ [][NextFrame]_vars

\* What the read-only operation name can return when it is the only call
\* made on an instance of document d and settings s.
Alone(name, a, d, s) ==
    CASE name = "Flatten" -> {o.ret : o \in Flatten(d, a.ignoredKeys)}
      [] name = "Lookup" -> {Lookup(d, a.keys)}
      [] name = "Bool" -> {Bool(d, a.keys)}
      [] name = "Float64" -> {Float64(d, a.keys)}
      [] name = "Int64" -> {Int64(d, a.keys)}
      [] name = "String" -> {String(d, a.keys)}
      [] name = "Strings" -> {Strings(d, a.keys)}
      [] name = "Time" -> {Time(d, a.layout, a.keys)}
      [] name = "Uint64" -> Uint64(d, a.keys)
      [] name = "MarshalXML" -> MarshalXML(d, s)
      [] name = "MarshalJSON" -> {MarshalJSON(d)}

\* A call of a read-only operation leaves the document and the settings as
\* they were, a call of an unmarshal operation leaves the settings, and a
\* read-only operation called after read-only operations only returns what it
\* can return alone on the instance as New made it.
FrameKept ==
    /\ op' \in ReadOnlyOps => D' = D /\ settings' = settings
    /\ op' \in UnmarshalOps => settings' = settings
    /\ op' \in ReadOnlyOps /\ run'.readonly =>
          ret' \in Alone(op', args', run'.new.D, run'.new.settings)

C24_TimeParsesStringOrNumber ==
    op = "Time" =>
        IF ~Resolves(D, args.keys) THEN ret = [v |-> ZeroTime, err |-> ErrNotFound]
        ELSE LET m == ValueAt(D.v, args.keys)
             IN  IF m.t \in {"string", "json.Number"}
                 THEN /\ ret = ParseTime(args.layout, m.v)
                      /\ ret.err \in {NoErr, ErrTimeParse}
                      /\ ret.err # NoErr => ret.v = ZeroTime
                 ELSE ret.v = ZeroTime /\ ret.err.kind = "ErrOutOfRange"

\* C25 as stated: for a document and a list of ignored paths Flatten has one
\* result, the same in whatever order the entries of each map are visited,
\* also when two paths normalize to the same key: the map returned is the
\* only one Flatten can return.
C25_FlattenDeterministic ==
    op = "Flatten" => \A o \in Flatten(D, args.ignoredKeys) : o.ret = ret

\* C26 as stated: on the tokens of a well-formed element UnmarshalXML does
\* not fail at run time: the stack of names is not empty when an end element
\* pops it, expanded descends into maps only, and the call returns, with no
\* error, leaving a document.
C26_UnmarshalXMLNeverPanics ==
    op = "UnmarshalXML" =>
        /\ \A i \in 1..Len(args.tokens) :
              args.tokens[i].t = "EndElement" =>
                  Len(tokenLoop(declared(args.start), SubSeq(args.tokens, 1, i - 1)).tree) >= 1
        /\ ret.err # Panicked
        /\ IsMap(D) /\ ~D.isnil

====
